---- MODULE Spec2Model ----
(***************************************************************************)
(* The TF-IDF example workflow of the Dataflow Python SDK                  *)
(* (google/cloud/dataflow/examples/complete/tfidf.py).                     *)
(*                                                                         *)
(* A PCollection is modelled as a sequence: the order in which a run       *)
(* happened to produce its elements.  Nothing in the workflow may depend   *)
(* on that order, and the properties below check that it does not.         *)
(* A word and a line are sequences of one-character strings.               *)
(* A float is modelled by the exact ratio it rounds (IEEE division is      *)
(* correctly rounded, so float(a)/b is a function of the rational a/b);    *)
(* math.log is kept symbolic except for log(1.0) = 0.0.                    *)
(***************************************************************************)
EXTENDS Integers, Sequences, FiniteSets, TLC

\* ------------------------------------------------------------- bounds

\* Number of records (uri, line) of the corpus.
MaxRecords == 2

\* Number of documents (uris) the records are drawn from.
NumDocs == 2

\* Number of keys of the cogroup handed to compute_tf_idf in SpecCombiner.
MaxJoinKeys == 2

\* ------------------------------------------------------------- inputs

URIS == 1..NumDocs

\* The lines a document may hold: an empty line, a line without any token,
\* one word, a word twice in two cases, two words, a word with a quote.
Lines ==
  { <<>>,
    <<".", " ">>,
    <<"a">>,
    <<"A", " ", "a">>,
    <<"a", ".", "B">>,
    <<"b", "'", "s", "!">> }

Records == URIS \X Lines

BoundedSeq(S, n) == UNION {[1..k -> S] : k \in 0..n}

Range(s) == {s[i] : i \in 1..Len(s)}

Min(a, b) == IF a <= b THEN a ELSE b

\* All orders of the elements of s.
Perms(s) ==
  {[i \in 1..Len(s) |-> s[f[i]]] : f \in Permutations(1..Len(s))}

\* ------------------------------------------------------------- floats

RECURSIVE GCD(_, _)
GCD(a, b) == IF b = 0 THEN a ELSE GCD(b, a % b)

\* float(a) / b for b # 0, as the ratio in lowest terms.
Ratio(a, b) == LET g == GCD(a, b) IN <<a \div g, b \div g>>

Zero == <<0, 1>>
One == <<1, 1>>

\* 1 / x for x # 0.
Inverse(x) == <<x[2], x[1]>>

\* tf * math.log(y): the term itself, and 0.0 when y = 1.0.
TimesLog(tf, y) ==
  IF y = One THEN [tf |-> Zero, log_of |-> One] ELSE [tf |-> tf, log_of |-> y]

\* ------------------------------------------------------------- tokenizer

UpperCase ==
  <<"A","B","C","D","E","F","G","H","I","J","K","L","M",
    "N","O","P","Q","R","S","T","U","V","W","X","Y","Z">>

LowerCase ==
  <<"a","b","c","d","e","f","g","h","i","j","k","l","m",
    "n","o","p","q","r","s","t","u","v","w","x","y","z">>

\* The character class [A-Za-z'].
IsWordChar(c) == c \in Range(UpperCase) \cup Range(LowerCase) \cup {"'"}

\* str.lower() of one character.
LowerChar(c) ==
  IF c \in Range(UpperCase)
  THEN LowerCase[CHOOSE i \in 1..Len(UpperCase) : UpperCase[i] = c]
  ELSE c

Lower(w) == [i \in 1..Len(w) |-> LowerChar(w[i])]

\* re.findall(r'[A-Za-z\']+', line): the maximal runs of word characters,
\* left to right.
RECURSIVE Scan(_, _, _)
Scan(line, i, run) ==
  LET flush == IF run = <<>> THEN <<>> ELSE <<run>> IN
  IF i > Len(line) THEN flush
  ELSE IF IsWordChar(line[i]) THEN Scan(line, i + 1, Append(run, line[i]))
  ELSE flush \o Scan(line, i + 1, <<>>)

FindAll(line) == Scan(line, 1, <<>>)

\* A tokenizer that splits at the other characters instead (re.split): it
\* yields an empty word where no run stands.
split_into_words_by_split(rec) ==
  LET toks == IF FindAll(rec[2]) = <<>> THEN << <<>> >> ELSE FindAll(rec[2])
  IN [i \in 1..Len(toks) |-> <<rec[1], Lower(toks[i])>>]

split_into_words(rec) ==
  LET toks == FindAll(rec[2])
  IN [i \in 1..Len(toks) |-> <<rec[1], Lower(toks[i])>>]

\* ------------------------------------------------------------- SDK transforms

\* df.Keys, df.Values: the projections of a collection of pairs.
Keys(pc) == [i \in 1..Len(pc) |-> pc[i][1]]

Values(pc) == [i \in 1..Len(pc) |-> pc[i][2]]

\* df.FlatMap: the outputs of the elements, outs[i] those of element i,
\* concatenated.
FlatMap(outs) ==
  LET F[i \in 0..Len(outs)] == IF i = 0 THEN <<>> ELSE F[i - 1] \o outs[i]
  IN F[Len(outs)]

\* The elements of pc, each once, in the order of their first appearance.
Distinct(pc) ==
  LET F[i \in 0..Len(pc)] ==
        IF i = 0 THEN <<>>
        ELSE IF \E j \in 1..(i - 1) : pc[j] = pc[i] THEN F[i - 1]
        ELSE Append(F[i - 1], pc[i])
  IN F[Len(pc)]

\* The two bundles a run splits pc into: the first min(cut, Len(pc))
\* elements and the rest.  Each bundle is aggregated on its own and the
\* partial results are merged at the grouping boundary.
Bundle1(pc, cut) == SubSeq(pc, 1, Min(cut, Len(pc)))

Bundle2(pc, cut) == SubSeq(pc, Min(cut, Len(pc)) + 1, Len(pc))

\* df.RemoveDuplicates: each bundle is deduplicated, then the union is.
RemoveDuplicates(pc, cut) ==
  Distinct(Distinct(Bundle1(pc, cut)) \o Distinct(Bundle2(pc, cut)))

\* The counting CombineFn: an accumulator starts at 0, add_input adds one,
\* merge_accumulators adds the partial counts.
RECURSIVE AddInputs(_, _)
AddInputs(acc, bundle) ==
  IF bundle = <<>> THEN acc ELSE AddInputs(acc + 1, Tail(bundle))

MergeAccumulators(a, b) == a + b

\* df.combiners.Count.Globally: a collection of one element, the number of
\* elements of pc (0 for an empty pc).
CountGlobally(pc, cut) ==
  << MergeAccumulators(AddInputs(0, Bundle1(pc, cut)),
                       AddInputs(0, Bundle2(pc, cut))) >>

\* The elements of a bundle equal to k.
Only(bundle, k) == SelectSeq(bundle, LAMBDA x : x = k)

\* df.combiners.Count.PerElement: (element, number of occurrences) for each
\* distinct element.
CountPerElement(pc, cut) ==
  LET ks == Distinct(pc)
      count(k) ==
        MergeAccumulators(AddInputs(0, Only(Bundle1(pc, cut), k)),
                          AddInputs(0, Only(Bundle2(pc, cut), k)))
  IN [i \in 1..Len(ks) |-> <<ks[i], count(ks[i])>>]

\* The values pc holds under key k, in pc's order.
ValuesOf(pc, k) == Values(SelectSeq(pc, LAMBDA kv : kv[1] = k))

\* df.CoGroupByKey of two tagged collections: for each key of either, the
\* values of the first and the values of the second.
CoGroupByKey(pc1, pc2) ==
  LET ks == Distinct(Keys(pc1) \o Keys(pc2))
  IN [i \in 1..Len(ks) |-> <<ks[i], <<ValuesOf(pc1, ks[i]), ValuesOf(pc2, ks[i])>>>>]

\* AsSingleton: the one element of a collection of one element.
AsSingleton(pc) == pc[1]

\* The outcome of a FlatMap whose function may raise, results[i] being what
\* it did on element i: the first error, or the concatenated outputs.
Ok(out) == [error |-> "none", out |-> out]

Raise(e) == [error |-> e, out |-> <<>>]

FlatMapRaising(results) ==
  LET bad == {i \in 1..Len(results) : results[i].error # "none"}
  IN IF bad # {}
     THEN Raise(results[CHOOSE i \in bad : \A j \in bad : i <= j].error)
     ELSE Ok(FlatMap([i \in 1..Len(results) |-> results[i].out]))

\* ------------------------------------------------------------- TfIdf.apply

\* The total taken over the tokenized records instead of the input records.
total_documents_of_words(content, cut) ==
  CountGlobally(RemoveDuplicates(
    Keys(FlatMap([i \in 1..Len(content) |-> split_into_words(content[i])])), cut), cut)

\* 'get uris' | 'get unique uris' | ' count uris', over the input records.
total_documents_of(content, cut) ==
  CountGlobally(RemoveDuplicates(Keys(content), cut), cut)

\* 'split words'.
uri_to_words_of(content) ==
  FlatMap([i \in 1..Len(content) |-> split_into_words(content[i])])

\* pc with each run of equal neighbours collapsed to one element.
Uniq(pc) == SelectSeq([i \in 1..Len(pc) |-> <<i, pc[i]>>],
                      LAMBDA x : x[1] = 1 \/ pc[x[1] - 1] # x[2])

\* Duplicates removed only where they are neighbours.
word_to_doc_count_of_uniq(words, cut) ==
  CountPerElement(Values(Values(Uniq(words))), cut)

\* The per-word count left out: one (word, 1) for each (uri, word) pair.
word_to_doc_count_of_ungrouped(words, cut) ==
  LET ws == Values(RemoveDuplicates(words, cut))
  IN [i \in 1..Len(ws) |-> <<ws[i], 1>>]

\* 'get unique words per doc' | 'get words' | 'count docs per word'.
word_to_doc_count_of(words, cut) ==
  CountPerElement(Values(RemoveDuplicates(words, cut)), cut)

\* The words of a document counted once each.
uri_to_word_total_of_distinct(words, cut) ==
  CountPerElement(Keys(RemoveDuplicates(words, cut)), cut)

\* ' get uris' | 'count words in doc'.
uri_to_word_total_of(words, cut) == CountPerElement(Keys(words), cut)

\* 'count word-doc pairs'.
uri_and_word_to_count_of(words, cut) == CountPerElement(words, cut)

\* 'shift keys': ((uri, word), count) to (uri, (word, count)).
shift_keys(e) == <<e[1][1], <<e[1][2], e[2]>>>>

uri_to_word_and_count_of(pairs) == [i \in 1..Len(pairs) |-> shift_keys(pairs[i])]

\* 'cogroup by uri', tagged 'word totals' and 'word counts'.
tag_by_uri(e) == <<e[1], [word_totals |-> e[2][1], word_counts |-> e[2][2]]>>

uri_to_word_and_count_and_total_of(totals, counts) ==
  LET grouped == CoGroupByKey(totals, counts)
  IN [i \in 1..Len(grouped) |-> tag_by_uri(grouped[i])]

\* The single-element unpack [x] = values.
Unpacks(values) == Len(values) = 1

\* The count divided by the number of distinct words of the document.
compute_term_frequency_by_distinct(e) ==
  LET uri == e[1]
      word_and_count == e[2].word_counts
      totals == e[2].word_totals
  IN IF ~Unpacks(totals) THEN Raise("ValueError")
     ELSE Ok([i \in 1..Len(word_and_count) |->
               <<word_and_count[i][1],
                 <<uri, Ratio(word_and_count[i][2], Len(word_and_count))>>>>])

compute_term_frequency(e) ==
  LET uri == e[1]
      word_and_count == e[2].word_counts
      totals == e[2].word_totals
  IN IF ~Unpacks(totals) THEN Raise("ValueError")
     ELSE IF word_and_count # <<>> /\ totals[1] = 0 THEN Raise("ZeroDivisionError")
     ELSE Ok([i \in 1..Len(word_and_count) |->
               <<word_and_count[i][1],
                 <<uri, Ratio(word_and_count[i][2], totals[1])>>>>])

\* 'compute term frequencies'.
word_to_uri_and_tf_of(grouped) ==
  FlatMapRaising([i \in 1..Len(grouped) |-> compute_term_frequency(grouped[i])])

\* The ratio upside down.
compute_doc_frequency_inverted(e, total) ==
  IF e[2] = 0 THEN Raise("ZeroDivisionError")
  ELSE Ok(<< <<e[1], Ratio(total, e[2])>> >>)

\* lambda (word, count), total: (word, float(count) / total)
compute_doc_frequency(e, total) ==
  IF total = 0 THEN Raise("ZeroDivisionError")
  ELSE Ok(<< <<e[1], Ratio(e[2], total)>> >>)

\* 1 / total taken once, before any word is seen.
word_to_df_of_eager(counts, total) ==
  IF AsSingleton(total) = 0 THEN Raise("ZeroDivisionError")
  ELSE FlatMapRaising([i \in 1..Len(counts) |->
          Ok(<< <<counts[i][1], Ratio(counts[i][2], AsSingleton(total))>> >>)])

\* 'compute doc frequencies', with the total as a singleton side input.
word_to_df_of(counts, total) ==
  FlatMapRaising([i \in 1..Len(counts) |->
    compute_doc_frequency(counts[i], AsSingleton(total))])

\* 'cogroup words by tf-df', tagged 'tf' and 'df'.
tag_by_word(e) == <<e[1], [tf |-> e[2][1], df |-> e[2][2]]>>

word_to_uri_and_tf_and_df_of(tfs, dfs) ==
  LET grouped == CoGroupByKey(tfs, dfs)
  IN [i \in 1..Len(grouped) |-> tag_by_word(grouped[i])]

\* A return where the yield stands: only the first document of a word.
compute_tf_idf_first_only(e) ==
  LET word == e[1]
      dfs == e[2].df
      tfs == e[2].tf
  IN IF ~Unpacks(dfs) THEN Raise("ValueError")
     ELSE IF tfs # <<>> /\ dfs[1] = Zero THEN Raise("ZeroDivisionError")
     ELSE Ok([i \in 1..Min(1, Len(tfs)) |->
               <<word, <<tfs[i][1], TimesLog(tfs[i][2], Inverse(dfs[1]))>>>>])

\* A word without a document frequency passed over in silence.
compute_tf_idf_skipping(e) ==
  LET word == e[1]
      dfs == e[2].df
      tfs == e[2].tf
  IN IF dfs = <<>> THEN Ok(<<>>)
     ELSE IF ~Unpacks(dfs) THEN Raise("ValueError")
     ELSE IF tfs # <<>> /\ dfs[1] = Zero THEN Raise("ZeroDivisionError")
     ELSE Ok([i \in 1..Len(tfs) |->
               <<word, <<tfs[i][1], TimesLog(tfs[i][2], Inverse(dfs[1]))>>>>])

compute_tf_idf(e) ==
  LET word == e[1]
      dfs == e[2].df
      tfs == e[2].tf
  IN IF ~Unpacks(dfs) THEN Raise("ValueError")
     ELSE IF tfs # <<>> /\ dfs[1] = Zero THEN Raise("ZeroDivisionError")
     ELSE Ok([i \in 1..Len(tfs) |->
               <<word, <<tfs[i][1], TimesLog(tfs[i][2], Inverse(dfs[1]))>>>>])

\* 'compute tf-idf'.
word_to_uri_and_tfidf_of(grouped) ==
  FlatMapRaising([i \in 1..Len(grouped) |-> compute_tf_idf(grouped[i])])

\* The whole transform on one schedule: the records in the order of content,
\* every aggregation split at cut.  The outcome of the first step that
\* raises, or the scores.
TfIdf_apply(content, cut) ==
  LET total == total_documents_of(content, cut)
      words == uri_to_words_of(content)
      doc_count == word_to_doc_count_of(words, cut)
      word_total == uri_to_word_total_of(words, cut)
      pair_count == uri_and_word_to_count_of(words, cut)
      word_and_count == uri_to_word_and_count_of(pair_count)
      by_uri == uri_to_word_and_count_and_total_of(word_total, word_and_count)
      tfs == word_to_uri_and_tf_of(by_uri)
      dfs == word_to_df_of(doc_count, total)
  IN IF tfs.error # "none" THEN tfs
     ELSE IF dfs.error # "none" THEN dfs
     ELSE word_to_uri_and_tfidf_of(word_to_uri_and_tf_and_df_of(tfs.out, dfs.out))

\* ------------------------------------------------------------- the run

VARIABLES
  uri_to_content,                   \* the records read: (uri, line)
  total_documents,
  uri_to_words,
  word_to_doc_count,
  uri_to_word_total,
  uri_and_word_to_count,
  uri_to_word_and_count,
  uri_to_word_and_count_and_total,
  word_to_uri_and_tf,
  word_to_df,
  word_to_uri_and_tf_and_df,
  word_to_uri_and_tfidf,
  computed,                         \* the collections the run has produced
  status,                           \* "running", "failed" or "done"
  error,                            \* the exception that failed the run
  sink                              \* what the 'write' step was handed

vars ==
  << uri_to_content, total_documents, uri_to_words, word_to_doc_count,
     uri_to_word_total, uri_and_word_to_count, uri_to_word_and_count,
     uri_to_word_and_count_and_total, word_to_uri_and_tf, word_to_df,
     word_to_uri_and_tf_and_df, word_to_uri_and_tfidf, computed, status,
     error, sink >>

\* Nothing is computed yet.
Blank ==
  /\ total_documents = <<>>
  /\ uri_to_words = <<>>
  /\ word_to_doc_count = <<>>
  /\ uri_to_word_total = <<>>
  /\ uri_and_word_to_count = <<>>
  /\ uri_to_word_and_count = <<>>
  /\ uri_to_word_and_count_and_total = <<>>
  /\ word_to_uri_and_tf = <<>>
  /\ word_to_df = <<>>
  /\ word_to_uri_and_tfidf = <<>>
  /\ status = "running"
  /\ error = "none"
  /\ sink = <<>>

\* read_documents: the lines of every uri, flattened in any order.
Init ==
  /\ uri_to_content \in BoundedSeq(Records, MaxRecords)
  /\ word_to_uri_and_tf_and_df = <<>>
  /\ computed = {"uri_to_content"}
  /\ Blank

\* A step runs once its inputs are there.  A step may run again (a retried
\* stage): it computes its output anew from the same inputs, on a split of
\* its own.
Ready(inputs) == status = "running" /\ inputs \subseteq computed

Produced(name) == computed' = computed \cup {name}

Failed(e) == status' = "failed" /\ error' = e

GetTotalDocuments ==
  /\ Ready({"uri_to_content"})
  /\ \E cut \in 0..Len(uri_to_content) :
       total_documents' = total_documents_of(uri_to_content, cut)
  /\ Produced("total_documents")
  /\ UNCHANGED << uri_to_content, uri_to_words, word_to_doc_count,
                  uri_to_word_total, uri_and_word_to_count, uri_to_word_and_count,
                  uri_to_word_and_count_and_total, word_to_uri_and_tf, word_to_df,
                  word_to_uri_and_tf_and_df, word_to_uri_and_tfidf, status,
                  error, sink >>

SplitWords ==
  /\ Ready({"uri_to_content"})
  /\ uri_to_words' = uri_to_words_of(uri_to_content)
  /\ Produced("uri_to_words")
  /\ UNCHANGED << uri_to_content, total_documents, word_to_doc_count,
                  uri_to_word_total, uri_and_word_to_count, uri_to_word_and_count,
                  uri_to_word_and_count_and_total, word_to_uri_and_tf, word_to_df,
                  word_to_uri_and_tf_and_df, word_to_uri_and_tfidf, status,
                  error, sink >>

CountDocsPerWord ==
  /\ Ready({"uri_to_words"})
  /\ \E cut \in 0..Len(uri_to_words) :
       word_to_doc_count' = word_to_doc_count_of(uri_to_words, cut)
  /\ Produced("word_to_doc_count")
  /\ UNCHANGED << uri_to_content, total_documents, uri_to_words,
                  uri_to_word_total, uri_and_word_to_count, uri_to_word_and_count,
                  uri_to_word_and_count_and_total, word_to_uri_and_tf, word_to_df,
                  word_to_uri_and_tf_and_df, word_to_uri_and_tfidf, status,
                  error, sink >>

CountWordsInDoc ==
  /\ Ready({"uri_to_words"})
  /\ \E cut \in 0..Len(uri_to_words) :
       uri_to_word_total' = uri_to_word_total_of(uri_to_words, cut)
  /\ Produced("uri_to_word_total")
  /\ UNCHANGED << uri_to_content, total_documents, uri_to_words,
                  word_to_doc_count, uri_and_word_to_count, uri_to_word_and_count,
                  uri_to_word_and_count_and_total, word_to_uri_and_tf, word_to_df,
                  word_to_uri_and_tf_and_df, word_to_uri_and_tfidf, status,
                  error, sink >>

CountWordDocPairs ==
  /\ Ready({"uri_to_words"})
  /\ \E cut \in 0..Len(uri_to_words) :
       uri_and_word_to_count' = uri_and_word_to_count_of(uri_to_words, cut)
  /\ Produced("uri_and_word_to_count")
  /\ UNCHANGED << uri_to_content, total_documents, uri_to_words,
                  word_to_doc_count, uri_to_word_total, uri_to_word_and_count,
                  uri_to_word_and_count_and_total, word_to_uri_and_tf, word_to_df,
                  word_to_uri_and_tf_and_df, word_to_uri_and_tfidf, status,
                  error, sink >>

ShiftKeys ==
  /\ Ready({"uri_and_word_to_count"})
  /\ uri_to_word_and_count' = uri_to_word_and_count_of(uri_and_word_to_count)
  /\ Produced("uri_to_word_and_count")
  /\ UNCHANGED << uri_to_content, total_documents, uri_to_words,
                  word_to_doc_count, uri_to_word_total, uri_and_word_to_count,
                  uri_to_word_and_count_and_total, word_to_uri_and_tf, word_to_df,
                  word_to_uri_and_tf_and_df, word_to_uri_and_tfidf, status,
                  error, sink >>

CogroupByUri ==
  /\ Ready({"uri_to_word_total", "uri_to_word_and_count"})
  /\ uri_to_word_and_count_and_total' =
       uri_to_word_and_count_and_total_of(uri_to_word_total, uri_to_word_and_count)
  /\ Produced("uri_to_word_and_count_and_total")
  /\ UNCHANGED << uri_to_content, total_documents, uri_to_words,
                  word_to_doc_count, uri_to_word_total, uri_and_word_to_count,
                  uri_to_word_and_count, word_to_uri_and_tf, word_to_df,
                  word_to_uri_and_tf_and_df, word_to_uri_and_tfidf, status,
                  error, sink >>

ComputeTermFrequencies ==
  /\ Ready({"uri_to_word_and_count_and_total"})
  /\ LET r == word_to_uri_and_tf_of(uri_to_word_and_count_and_total) IN
       IF r.error = "none"
       THEN /\ word_to_uri_and_tf' = r.out
            /\ Produced("word_to_uri_and_tf")
            /\ UNCHANGED << status, error >>
       ELSE /\ Failed(r.error)
            /\ UNCHANGED << word_to_uri_and_tf, computed >>
  /\ UNCHANGED << uri_to_content, total_documents, uri_to_words,
                  word_to_doc_count, uri_to_word_total, uri_and_word_to_count,
                  uri_to_word_and_count, uri_to_word_and_count_and_total,
                  word_to_df, word_to_uri_and_tf_and_df, word_to_uri_and_tfidf,
                  sink >>

ComputeDocFrequencies ==
  /\ Ready({"word_to_doc_count", "total_documents"})
  /\ LET r == word_to_df_of(word_to_doc_count, total_documents) IN
       IF r.error = "none"
       THEN /\ word_to_df' = r.out
            /\ Produced("word_to_df")
            /\ UNCHANGED << status, error >>
       ELSE /\ Failed(r.error)
            /\ UNCHANGED << word_to_df, computed >>
  /\ UNCHANGED << uri_to_content, total_documents, uri_to_words,
                  word_to_doc_count, uri_to_word_total, uri_and_word_to_count,
                  uri_to_word_and_count, uri_to_word_and_count_and_total,
                  word_to_uri_and_tf, word_to_uri_and_tf_and_df,
                  word_to_uri_and_tfidf, sink >>

CogroupWordsByTfDf ==
  /\ Ready({"word_to_uri_and_tf", "word_to_df"})
  /\ word_to_uri_and_tf_and_df' =
       word_to_uri_and_tf_and_df_of(word_to_uri_and_tf, word_to_df)
  /\ Produced("word_to_uri_and_tf_and_df")
  /\ UNCHANGED << uri_to_content, total_documents, uri_to_words,
                  word_to_doc_count, uri_to_word_total, uri_and_word_to_count,
                  uri_to_word_and_count, uri_to_word_and_count_and_total,
                  word_to_uri_and_tf, word_to_df, word_to_uri_and_tfidf, status,
                  error, sink >>

ComputeTfIdf ==
  /\ Ready({"word_to_uri_and_tf_and_df"})
  /\ LET r == word_to_uri_and_tfidf_of(word_to_uri_and_tf_and_df) IN
       IF r.error = "none"
       THEN /\ word_to_uri_and_tfidf' = r.out
            /\ Produced("word_to_uri_and_tfidf")
            /\ UNCHANGED << status, error >>
       ELSE /\ Failed(r.error)
            /\ UNCHANGED << word_to_uri_and_tfidf, computed >>
  /\ UNCHANGED << uri_to_content, total_documents, uri_to_words,
                  word_to_doc_count, uri_to_word_total, uri_and_word_to_count,
                  uri_to_word_and_count, uri_to_word_and_count_and_total,
                  word_to_uri_and_tf, word_to_df, word_to_uri_and_tf_and_df,
                  sink >>

\* 'write', and the end of p.run().
Write ==
  /\ Ready({"word_to_uri_and_tfidf"})
  /\ sink' = word_to_uri_and_tfidf
  /\ status' = "done"
  /\ UNCHANGED << uri_to_content, total_documents, uri_to_words,
                  word_to_doc_count, uri_to_word_total, uri_and_word_to_count,
                  uri_to_word_and_count, uri_to_word_and_count_and_total,
                  word_to_uri_and_tf, word_to_df, word_to_uri_and_tf_and_df,
                  word_to_uri_and_tfidf, computed, error >>

Next ==
  \/ GetTotalDocuments
  \/ SplitWords
  \/ CountDocsPerWord
  \/ CountWordsInDoc
  \/ CountWordDocPairs
  \/ ShiftKeys
  \/ CogroupByUri
  \/ ComputeTermFrequencies
  \/ ComputeDocFrequencies
  \/ CogroupWordsByTfDf
  \/ ComputeTfIdf
  \/ Write

Spec == Init /\ [][Next]_vars

\* ------------------------------------------------------------- direct counting

\* The reference the properties compare the run with: counts taken directly
\* from the records, with no grouping and no combiner.

Has(name) == name \in computed

\* The documents of the corpus.
AllDocs == {uri_to_content[i][1] : i \in 1..Len(uri_to_content)}

\* Every word occurrence: record i, token j of its line.
Occurrences ==
  UNION { {<<i, j>> : j \in 1..Len(FindAll(uri_to_content[i][2]))} :
          i \in 1..Len(uri_to_content) }

DocAt(o) == uri_to_content[o[1]][1]

WordAt(o) == Lower(FindAll(uri_to_content[o[1]][2])[o[2]])

OccCount(w, d) == Cardinality({o \in Occurrences : DocAt(o) = d /\ WordAt(o) = w})

DocTotal(d) == Cardinality({o \in Occurrences : DocAt(o) = d})

DocsContaining(w) == {DocAt(o) : o \in {x \in Occurrences : WordAt(x) = w}}

\* A document none of whose lines holds a character of a word.
Tokenless(d) ==
  \A i \in 1..Len(uri_to_content) :
    uri_to_content[i][1] = d =>
      \A k \in 1..Len(uri_to_content[i][2]) : ~IsWordChar(uri_to_content[i][2][k])

RECURSIVE SumCounts(_)
SumCounts(pc) == IF pc = <<>> THEN 0 ELSE pc[1][2] + SumCounts(Tail(pc))

\* ------------------------------------------------------------- the score combiner alone

\* compute_tf_idf on any cogroup, also one the two counting branches could
\* never produce: each word with any list of (uri, tf) and any list of
\* document frequencies.
JoinWords == {<<"a">>, <<"b">>, <<"c">>}

JoinTfs == {<<>>, << <<1, <<1, 2>>>> >>, << <<1, <<1, 2>>>>, <<2, One>> >>}

JoinDfs == {<<>>, << <<1, 2>> >>, << <<1, 2>>, One >>, << Zero >>}

JoinElems == {<<w, [tf |-> t, df |-> d]>> : w \in JoinWords, t \in JoinTfs, d \in JoinDfs}

InitCombiner ==
  /\ uri_to_content = <<>>
  /\ word_to_uri_and_tf_and_df \in
       {g \in BoundedSeq(JoinElems, MaxJoinKeys) :
          \A i, j \in 1..Len(g) : g[i][1] = g[j][1] => i = j}
  /\ computed = {"word_to_uri_and_tf_and_df"}
  /\ Blank

NextCombiner == ComputeTfIdf \/ Write

SpecCombiner == InitCombiner /\ [][NextCombiner]_vars

\* ------------------------------------------------------------- properties

Scored == word_to_uri_and_tfidf

C2_OneTriplePerOccurringPair ==
  Has("word_to_uri_and_tfidf") =>
    /\ \A i \in 1..Len(Scored) : OccCount(Scored[i][1], Scored[i][2][1]) >= 1
    /\ \A i, j \in 1..Len(Scored) :
         (Scored[i][1] = Scored[j][1] /\ Scored[i][2][1] = Scored[j][2][1]) => i = j
    /\ \A o \in Occurrences :
         \E i \in 1..Len(Scored) :
           Scored[i][1] = WordAt(o) /\ Scored[i][2][1] = DocAt(o)

\* Two documents share a word, and one of them holds a word the other lacks.
C2_Witness ==
  /\ status = "done"
  /\ \E i, j, k \in 1..Len(sink) :
       /\ sink[i][1] = sink[j][1] /\ sink[i][2][1] # sink[j][2][1]
       /\ OccCount(sink[k][1], sink[i][2][1]) = 0

C4_TokenlessDocumentExcluded ==
  /\ error # "ZeroDivisionError"
  /\ \A i \in 1..Len(uri_to_word_and_count_and_total) :
       \A k \in 1..Len(uri_to_word_and_count_and_total[i][2].word_totals) :
         uri_to_word_and_count_and_total[i][2].word_totals[k] >= 1
  /\ \A d \in AllDocs :
       Tokenless(d) =>
         /\ \A i \in 1..Len(word_to_uri_and_tf) : word_to_uri_and_tf[i][2][1] # d
         /\ \A i \in 1..Len(Scored) : Scored[i][2][1] # d
         /\ \A i \in 1..Len(sink) : sink[i][2][1] # d

\* A run over a document without words and a document with words ends.
C4_Witness ==
  /\ status = "done"
  /\ sink # <<>>
  /\ \E d \in AllDocs : Tokenless(d)

Joined == word_to_uri_and_tf_and_df

\* A word of the cogroup with term frequencies and no document frequency.
Orphan(e) == e[2].tf # <<>> /\ e[2].df = <<>>

\* A word of the cogroup with one document frequency, and not 0.
Sound(e) == Len(e[2].df) = 1 /\ e[2].df[1] # Zero

\* C5: a word with term-frequency records and no document-frequency value
\* fails the run: it is never passed over, nothing is scored, nothing is
\* written; the error is the failed unpack unless another word of the
\* cogroup is broken too.
C5_OrphanWordFailsTheRun ==
  (\E i \in 1..Len(Joined) : Orphan(Joined[i])) =>
    /\ status # "done"
    /\ ~Has("word_to_uri_and_tfidf")
    /\ word_to_uri_and_tfidf = <<>> /\ sink = <<>>
    /\ status = "running" => error = "none"
    /\ status = "failed" => error \in {"ValueError", "ZeroDivisionError"}
    /\ (status = "failed" /\ \A i \in 1..Len(Joined) : Orphan(Joined[i]) \/ Sound(Joined[i]))
         => error = "ValueError"

\* The step ran on an orphan word beside a sound word, and the run failed.
C5_Witness ==
  /\ status = "failed" /\ error = "ValueError"
  /\ \E i, j \in 1..Len(Joined) :
       /\ Orphan(Joined[i])
       /\ Joined[j][2].tf # <<>> /\ Joined[j][2].df = << <<1, 2>> >>

\* C6: the triples are the same for every order of the records and every
\* split of the records into partial aggregates; a stage run again gives
\* what it gave.
C6_SameOutputOnEverySchedule ==
  status = "done" =>
    \A p \in Perms(uri_to_content) :
      \A cut \in 0..Len(uri_to_words) :
        LET r == TfIdf_apply(p, cut)
            words == uri_to_words_of(p)
        IN /\ r.error = "none"
           /\ Range(r.out) = Range(sink)
           /\ total_documents_of(p, cut) = total_documents
           /\ Range(uri_to_word_total_of(words, cut)) = Range(uri_to_word_total)
           /\ Range(word_to_doc_count_of(words, cut)) = Range(word_to_doc_count)

\* Two different records, several words, scores written.
C6_Witness ==
  /\ status = "done"
  /\ Len(uri_to_content) >= 2
  /\ uri_to_content[1] # uri_to_content[2]
  /\ Len(uri_to_words) >= 3
  /\ Len(sink) >= 2

\* The (word, count) pairs of document d.
CountsOf(d) == SelectSeq(uri_and_word_to_count, LAMBDA e : e[1][1] = d)

\* C7: for every document with a word, the counts of its (document, word)
\* pairs add up to its word total.
C7_PairCountsSumToWordTotal ==
  (Has("uri_to_word_total") /\ Has("uri_and_word_to_count")) =>
    /\ \A i \in 1..Len(uri_to_word_total) :
         SumCounts(CountsOf(uri_to_word_total[i][1])) = uri_to_word_total[i][2]
    /\ \A d \in AllDocs :
         ~Tokenless(d) => \E i \in 1..Len(uri_to_word_total) : uri_to_word_total[i][1] = d

\* A document with two different words, one of them repeated.
C7_Witness ==
  /\ Has("uri_to_word_total") /\ Has("uri_and_word_to_count")
  /\ \E i \in 1..Len(uri_to_word_total) :
       /\ uri_to_word_total[i][2] >= 3
       /\ Len(CountsOf(uri_to_word_total[i][1])) >= 2

\* C8: on a non-empty corpus, 1 <= WordDocFrequencyCount(w) <= TotalDocumentCount,
\* and so 0 < DocumentFrequency(w) <= 1.
C8_DocumentFrequencyBound ==
  uri_to_content # <<>> =>
    /\ (Has("word_to_doc_count") /\ Has("total_documents")) =>
         \A i \in 1..Len(word_to_doc_count) :
           1 <= word_to_doc_count[i][2] /\ word_to_doc_count[i][2] <= total_documents[1]
    /\ \A i \in 1..Len(word_to_df) :
         0 < word_to_df[i][2][1] /\ word_to_df[i][2][1] <= word_to_df[i][2][2]

\* A word of every document and a word of one document only.
C8_Witness ==
  /\ Has("word_to_df")
  /\ \E i, j \in 1..Len(word_to_df) : word_to_df[i][2] = One /\ word_to_df[j][2] = <<1, 2>>

\* C9, as stated: the total is the number of documents with at least one
\* (document, word) record.
C9_TotalCountsTokenizedDocuments ==
  (Has("total_documents") /\ Has("uri_to_words")) =>
    total_documents = << Cardinality(Range(Keys(uri_to_words))) >>

\* C9, amended: the total is the number of distinct documents of the input
\* records, so a document without any token counts too.
C9_TotalCountsInputDocuments ==
  Has("total_documents") => total_documents = << Cardinality(AllDocs) >>

\* The total is taken over a document with words and a document without.
C9_Witness ==
  /\ Has("total_documents") /\ Has("word_to_df")
  /\ \E d, e \in AllDocs : Tokenless(d) /\ ~Tokenless(e)
  /\ total_documents = <<2>>

\* C10: no single-element unpack fails: each uri of the first cogroup has
\* one word total, each word of the second one document frequency, and no
\* run raises.
C10_UnpacksSucceed ==
  /\ status # "failed" /\ error = "none"
  /\ \A i \in 1..Len(uri_to_word_and_count_and_total) :
       uri_to_word_and_count_and_total[i][2].word_counts # <<>> =>
         Unpacks(uri_to_word_and_count_and_total[i][2].word_totals)
  /\ \A i \in 1..Len(Joined) : Joined[i][2].tf # <<>> => Unpacks(Joined[i][2].df)

\* Both joins ran over two keys, one word in two documents.
C10_Witness ==
  /\ status = "done"
  /\ Len(uri_to_word_and_count_and_total) >= 2
  /\ Len(Joined) >= 2
  /\ \E i \in 1..Len(Joined) : Len(Joined[i][2].tf) >= 2

====
